---- MODULE Spec2Model ----
(***************************************************************************)
(* llm-proxy: a scale-to-zero reverse proxy in front of one vLLM backend.  *)
(*                                                                         *)
(* ProcessManager (process_manager.py) owns the backend process;           *)
(* ProxyServer (server.py) starts it lazily on the first proxied request,  *)
(* gates requests on a readiness probe, and runs an idle monitor that      *)
(* stops the backend after idle_timeout seconds without a request.         *)
(*                                                                         *)
(* Everything runs on one asyncio event loop: an action of this module is  *)
(* the code a coroutine executes between two awaits.                       *)
(*                                                                         *)
(* Time is counted in ticks of 10 seconds (the grace period of             *)
(* stop_vllm_server).  The shorter sleeps (2 s settle delay, 1 s readiness *)
(* poll, 0.1 s in _wait_for_process) and the 60 s sleep of the idle        *)
(* monitor end at a nondeterministic moment.                               *)
(*                                                                         *)
(* The gateway is constructed without an API key (Spec) or with one        *)
(* (AuthSpec); SupervisorSpec drives the ProcessManager alone,             *)
(* RewriteSpec applies utils.parse_vllm_command to argument lists and      *)
(* StreamSpec applies ProxyServer._is_streaming_request to request bodies. *)
(*                                                                         *)
(* server.py calls process_manager.is_process_running() and                *)
(* process_manager.is_process_starting_or_running(); ProcessManager        *)
(* defines neither.  Its only liveness check is is_server_running(), and   *)
(* is_running is set from the spawn on, so both calls are modelled by      *)
(* is_server_running().                                                    *)
(***************************************************************************)
EXTENDS Integers, FiniteSets, Sequences, TLC

\* ------------------------------------------------------------------ bounds
NumReq == 2           \* request slots that can be in flight at once
MaxSpawns == 2        \* start attempts (log-file pairs / processes) per run
MaxIdleTimeout == 1   \* idle_timeout, in ticks
MaxArgs == 3          \* length of the argument lists given to the rewriter
MaxPairs == 2         \* members of the JSON objects that requests carry

\* ------------------------------------------------- program constants (ticks)
GraceTicks == 1       \* timeout=10.0 in stop_vllm_server

Reqs == 1..NumReq
Pids == 1..MaxSpawns
StopCallers == {"monitor", "cleanup", "api", "api_cleanup"}
None == 0

VARIABLES
    \* ProcessManager
    is_running,       \* self.is_running
    process,          \* self.process: None or the Popen handle (its attempt id)
    stdout_file,      \* self.stdout_file: None or the log pair of an attempt
    stderr_file,      \* self.stderr_file
    \* operating system
    proc,             \* per attempt id: "unborn", "alive" or "exited"
    ready,            \* processes that answer 200 on the ping path
    sigterm,          \* live processes that were sent SIGTERM
    sigkill,          \* live processes that were sent SIGKILL
    open_files,       \* log pairs that are open in the gateway process
    attempts,         \* number of start attempts so far
    \* ProxyServer
    vllm_command,     \* TRUE iff self.vllm_command is set
    idle_timeout,     \* self.idle_timeout
    api_key,          \* self.api_key: None or a string
    idle_time,        \* time.time() - self.last_request_time, saturated
    \* coroutines
    req,              \* per request slot: position and bookkeeping
    stop_op,          \* per caller of stop_vllm_server: position and timer
    mon_pc,           \* idle monitor: "sleep" or "stopping"
    cl_pc,            \* ProxyServer.cleanup: "none", "stopping" or "done"
    ev,               \* the last call of a route or of the supervisor and what
                      \* it returned; "env" after any other step
    rw,               \* utils.parse_vllm_command: its arguments and its results
    fwd               \* a request body, its classification and the path taken

pmvars == <<is_running, process, stdout_file, stderr_file>>
osvars == <<proc, ready, sigterm, sigkill, open_files, attempts>>
vars == <<is_running, process, stdout_file, stderr_file,
          proc, ready, sigterm, sigkill, open_files, attempts,
          vllm_command, idle_timeout, api_key, idle_time,
          req, stop_op, mon_pc, cl_pc, ev, rw, fwd>>

\* what is fixed when the gateway is constructed (cli.py lines 206-216)
config == <<vllm_command, idle_timeout, api_key>>

Min(a, b) == IF a < b THEN a ELSE b

\* -------------------------------------------------------------------------
\* The supervisor and the processes it handles, as one record, so that the
\* synchronous part of a handler can be composed from the methods it calls.
\* -------------------------------------------------------------------------
World ==
    [is_running |-> is_running, process |-> process,
     stdout_file |-> stdout_file, stderr_file |-> stderr_file,
     proc |-> proc, sigterm |-> sigterm, sigkill |-> sigkill,
     open_files |-> open_files, attempts |-> attempts]

Commit(w) ==
    /\ is_running' = w.is_running
    /\ process' = w.process
    /\ stdout_file' = w.stdout_file
    /\ stderr_file' = w.stderr_file
    /\ proc' = w.proc
    /\ sigterm' = w.sigterm
    /\ sigkill' = w.sigkill
    /\ open_files' = w.open_files
    /\ attempts' = w.attempts

\* Popen.poll() is not None
Exited(w) == w.proc[w.process] = "exited"

\* ProcessManager._close_log_files
close_log_files(w) ==
    [w EXCEPT !.open_files = @ \ {w.stdout_file, w.stderr_file},
              !.stdout_file = None,
              !.stderr_file = None]

\* (mutant) is_server_running without the poll
is_server_running_ret_nopoll(w) == w.is_running /\ w.process # None

\* ProcessManager.is_server_running: the value returned ...
is_server_running_ret(w) ==
    IF ~w.is_running \/ w.process = None THEN FALSE
    ELSE IF Exited(w) THEN FALSE
    ELSE TRUE

\* ... and the state it leaves
is_server_running(w) ==
    IF ~w.is_running \/ w.process = None THEN w
    ELSE IF Exited(w) THEN [w EXCEPT !.is_running = FALSE]
    ELSE w

\* (mutant) is_running is not set before the await
start_spawn_flag_late(w, popen_ok) ==
    LET k == w.attempts + 1
        opened == [w EXCEPT !.attempts = k,
                            !.stdout_file = k,
                            !.stderr_file = k,
                            !.open_files = @ \cup {k}]
    IN  IF popen_ok
        THEN [opened EXCEPT !.process = k,
                            !.proc = [@ EXCEPT ![k] = "alive"]]
        ELSE close_log_files([opened EXCEPT !.is_running = FALSE])

\* start_vllm_server up to `await asyncio.sleep(2)`, when is_running was
\* found false: open the log pair, Popen, is_running = True.  popen_ok is
\* whether Popen succeeded; on an exception the handler of line 100 runs.
start_spawn(w, popen_ok) ==
    LET k == w.attempts + 1
        opened == [w EXCEPT !.attempts = k,
                            !.stdout_file = k,
                            !.stderr_file = k,
                            !.open_files = @ \cup {k}]
    IN  IF popen_ok
        THEN [opened EXCEPT !.process = k,
                            !.proc = [@ EXCEPT ![k] = "alive"],
                            !.is_running = TRUE]
        ELSE close_log_files([opened EXCEPT !.is_running = FALSE])

\* (mutant) start_vllm_server without its guard
start_is_noop_never(w) == FALSE

\* the guard of line 46
start_is_noop(w) == w.is_running

\* (mutant) a failed settle check leaves is_running set
start_settle_keeps_flag(w) ==
    IF w.process = None THEN close_log_files(w)
    ELSE IF Exited(w) THEN close_log_files(w)
    ELSE w

\* start_vllm_server after the sleep: the value returned ...
start_settle_ret(w) ==
    IF w.process = None THEN FALSE      \* AttributeError, handler of line 100
    ELSE IF Exited(w) THEN FALSE
    ELSE TRUE

\* ... and the state it leaves
start_settle(w) ==
    IF w.process = None THEN close_log_files([w EXCEPT !.is_running = FALSE])
    ELSE IF Exited(w) THEN close_log_files([w EXCEPT !.is_running = FALSE])
    ELSE w

\* (mutant) the health route starts a backend that is down
health_effect_starts(w) ==
    IF is_server_running_ret(w) \/ w.attempts >= MaxSpawns
    THEN is_server_running(w)
    ELSE start_spawn(is_server_running(w), TRUE)

\* the health route: its one call of the supervisor (server.py line 70)
health_effect(w) == is_server_running(w)

\* (mutant) the handler of line 100 catches the cancellation
cancel_start_caught(w) == close_log_files([w EXCEPT !.is_running = FALSE])

\* start_vllm_server cancelled in `await asyncio.sleep(2)`: CancelledError
\* is not an Exception, so the handler of line 100 does not run
cancel_start(w) == w

\* (mutant) stop_vllm_server always takes its early return
stop_is_noop_always(w) == TRUE

\* (mutant) the early return looks at the handle only
stop_is_noop_handle_only(w) == w.process = None

\* the guard of line 142
stop_is_noop(w) == ~w.is_running \/ w.process = None

\* Popen.send_signal: nothing is sent to a process that has exited
Signalled(w, set) == IF Exited(w) THEN set ELSE set \cup {w.process}

\* self.process.terminate()
stop_terminate(w) == [w EXCEPT !.sigterm = Signalled(w, @)]

\* self.process.kill()
stop_kill(w) == [w EXCEPT !.sigkill = Signalled(w, @)]

\* the loop condition of _wait_for_process
wait_for_process_blocked(w) == w.process # None /\ ~Exited(w)

\* lines 166-169
stop_finish(w) ==
    close_log_files([w EXCEPT !.is_running = FALSE, !.process = None])

\* -------------------------------------------------------------------------
\* Initial state: ProcessManager.__init__ and ProxyServer.__init__
\* -------------------------------------------------------------------------
NoReq == [pc |-> "none", cold |-> FALSE, started |-> FALSE, probed |-> FALSE,
          att |-> 0]
NoStop == [pc |-> "none", elapsed |-> 0, target |-> None]

\* the last operation: its name, its result, the caller of a stop and the
\* start attempt of a start
Event(op, ret) == [op |-> op, ret |-> ret, by |-> "none", att |-> 0]
EventBy(op, ret, c) == [op |-> op, ret |-> ret, by |-> c, att |-> 0]
EventOf(op, ret, k) == [op |-> op, ret |-> ret, by |-> "none", att |-> k]

\* Requests are tasks of the event loop and have no identity of their own:
\* the slots that hold them are kept in one order, the free ones last.
PcRank(pc) ==
    CASE pc = "none" -> 0
      [] pc = "forward" -> 1
      [] pc = "wait_ready" -> 2
      [] pc = "settle" -> 3
      [] pc = "api_settle" -> 4

ReqRank(q) ==
    (8 * PcRank(q.pc) + (IF q.cold THEN 4 ELSE 0)
                      + (IF q.started THEN 2 ELSE 0)
                      + (IF q.probed THEN 1 ELSE 0)) * (MaxSpawns + 1) + q.att

SlotOrders == Permutations(Reqs)

SortReqs(f) ==
    LET p == CHOOSE p \in SlotOrders :
                 \A i, j \in Reqs : i < j => ReqRank(f[p[i]]) >= ReqRank(f[p[j]])
    IN  [i \in Reqs |-> f[p[i]]]

\* the request in slot r moves on to q
SetReq(r, q) == req' = SortReqs([req EXCEPT ![r] = q])

\* -------------------------------------------------------------------------
\* ProxyServer.verified_api_token.  A string is the sequence of its
\* characters; an Optional[str] is None or a string.
\* -------------------------------------------------------------------------
NoneStr == [some |-> FALSE, s |-> <<>>]
Str(s) == [some |-> TRUE, s |-> s]

\* the truth value of an Optional[str]: None and "" are false
Truthy(x) == x.some /\ Len(x.s) > 0

\* str.startswith
startswith(s, prefix) ==
    Len(s) >= Len(prefix) /\ SubSeq(s, 1, Len(prefix)) = prefix

BearerPrefix == <<"B", "e", "a", "r", "e", "r", " ">>
Key == <<"s", "k">>

\* the API keys a gateway is configured with, and the Authorization headers
\* a request carries
Keys == {NoneStr, Str(<<>>), Str(Key)}
Headers ==
    { NoneStr,                                        \* no header
      Str(<<>>),                                      \* an empty header
      Str(BearerPrefix \o Key),                       \* Bearer sk
      Str(BearerPrefix \o <<"n", "o">>),              \* Bearer no
      Str(BearerPrefix),                              \* "Bearer " alone
      Str(BearerPrefix \o Key \o <<"x">>),            \* Bearer skx
      Str(BearerPrefix \o <<" ">> \o Key),            \* two spaces
      Str(<<"b", "e", "a", "r", "e", "r", " ">> \o Key),    \* bearer sk
      Str(<<"B", "e", "a", "r", "e", "r">> \o Key),   \* Bearersk
      Str(<<"B", "a", "s", "i", "c", " ">> \o Key),   \* Basic sk
      Str(Key) }                                      \* the key alone

\* (mutant) the token is not compared with the key
verified_api_token_any_bearer(key, authorization) ==
    IF ~Truthy(key) THEN "ok"
    ELSE IF ~Truthy(authorization) THEN "401"
    ELSE IF ~startswith(authorization.s, BearerPrefix) THEN "401"
    ELSE "ok"

\* lines 44-59: "ok" for `return True`, "401" for the HTTPException
verified_api_token(key, authorization) ==
    IF ~Truthy(key) THEN "ok"
    ELSE IF ~Truthy(authorization) THEN "401"
    ELSE IF ~startswith(authorization.s, BearerPrefix) THEN "401"
    ELSE IF SubSeq(authorization.s, 8, Len(authorization.s)) # key.s THEN "401"
    ELSE "ok"

\* what the dependency answers to the requests that can come, by API key
Verdicts ==
    [key \in Keys |-> {verified_api_token(key, h) : h \in Headers}]

\* -------------------------------------------------------------------------
\* ProxyServer._is_streaming_request.  A body is the sequence of its
\* lexemes: the punctuation, literals and strings of JSON, the whitespace
\* characters, and a byte that is not UTF-8.
\* -------------------------------------------------------------------------
BadByte == "\\xff"
Space == " "
FormFeed == "\f"

\* what json skips between lexemes, and what str.strip() removes
JsonWhitespace == {Space}
PyWhitespace == {Space, FormFeed}

\* the JSON strings of the bodies, with the length of each
StrLen == [t \in {"\"stream\"", "\"a\"", "\"true\"", "\"\""} |->
             CASE t = "\"stream\"" -> 6
               [] t = "\"a\"" -> 1
               [] t = "\"true\"" -> 4
               [] t = "\"\"" -> 0]
StrLexemes == DOMAIN StrLen

\* bytes.decode('utf-8'): the text, or UnicodeDecodeError
decode(body) ==
    IF \E i \in 1..Len(body) : body[i] = BadByte
    THEN [ok |-> FALSE, s |-> <<>>]
    ELSE [ok |-> TRUE, s |-> body]

\* str.strip()
RECURSIVE lstrip(_)
lstrip(s) ==
    IF s # <<>> /\ Head(s) \in PyWhitespace THEN lstrip(Tail(s)) ELSE s

RECURSIVE rstrip(_)
rstrip(s) ==
    IF s # <<>> /\ s[Len(s)] \in PyWhitespace
    THEN rstrip(SubSeq(s, 1, Len(s) - 1))
    ELSE s

strip(s) == rstrip(lstrip(s))

\* A Python value that json.loads builds: its type, its number (the value of
\* a bool or an int, the length of a str, a list or a dict) and, for a dict,
\* its items in the order of the text.
Val(kind, n) == [kind |-> kind, n |-> n, items |-> <<>>]
Dict(items) == [kind |-> "dict", n |-> Len(items), items |-> items]
PyTrue == Val("bool", 1)
PyFalse == Val("bool", 0)
PyNone == Val("null", 0)

\* json.loads: a parse that failed (JSONDecodeError), or the value and the
\* position after it
Parsed(i, v) == [ok |-> TRUE, i |-> i, v |-> v]
DecodeError == [ok |-> FALSE, i |-> 0, v |-> PyNone]

RECURSIVE skip_ws(_, _)
skip_ws(s, i) ==
    IF i <= Len(s) /\ s[i] \in JsonWhitespace THEN skip_ws(s, i + 1) ELSE i

RECURSIVE parse_value(_, _)
RECURSIVE parse_members(_, _, _)
RECURSIVE parse_elements(_, _, _)

\* a value that begins at or after position i0
parse_value(s, i0) ==
    LET i == skip_ws(s, i0)
    IN  IF i > Len(s) THEN DecodeError
        ELSE IF s[i] = "true" THEN Parsed(i + 1, PyTrue)
        ELSE IF s[i] = "false" THEN Parsed(i + 1, PyFalse)
        ELSE IF s[i] = "null" THEN Parsed(i + 1, PyNone)
        ELSE IF s[i] = "1" THEN Parsed(i + 1, Val("int", 1))
        ELSE IF s[i] = "0" THEN Parsed(i + 1, Val("int", 0))
        ELSE IF s[i] \in StrLexemes THEN Parsed(i + 1, Val("str", StrLen[s[i]]))
        ELSE IF s[i] = "{"
        THEN LET j == skip_ws(s, i + 1)
             IN  IF j <= Len(s) /\ s[j] = "}" THEN Parsed(j + 1, Dict(<<>>))
                 ELSE parse_members(s, j, <<>>)
        ELSE IF s[i] = "["
        THEN LET j == skip_ws(s, i + 1)
             IN  IF j <= Len(s) /\ s[j] = "]" THEN Parsed(j + 1, Val("list", 0))
                 ELSE parse_elements(s, j, 0)
        ELSE DecodeError

\* the members of an object from position i0 on, after the members `items`
parse_members(s, i0, items) ==
    LET i == skip_ws(s, i0)
    IN  IF i > Len(s) \/ s[i] \notin StrLexemes THEN DecodeError
        ELSE LET c == skip_ws(s, i + 1)
             IN  IF c > Len(s) \/ s[c] # ":" THEN DecodeError
                 ELSE LET r == parse_value(s, c + 1)
                          e == skip_ws(s, r.i)
                      IN  IF ~r.ok \/ e > Len(s) THEN DecodeError
                          ELSE IF s[e] = ","
                          THEN parse_members(s, e + 1,
                                             Append(items, <<s[i], r.v>>))
                          ELSE IF s[e] = "}"
                          THEN Parsed(e + 1, Dict(Append(items, <<s[i], r.v>>)))
                          ELSE DecodeError

\* the elements of an array from position i0 on, after n elements
parse_elements(s, i0, n) ==
    LET r == parse_value(s, i0)
        e == skip_ws(s, r.i)
    IN  IF ~r.ok \/ e > Len(s) THEN DecodeError
        ELSE IF s[e] = "," THEN parse_elements(s, e + 1, n + 1)
        ELSE IF s[e] = "]" THEN Parsed(e + 1, Val("list", n + 1))
        ELSE DecodeError

\* json.loads(s): one value and nothing but whitespace after it
json_loads(s) ==
    LET r == parse_value(s, 1)
    IN  IF r.ok /\ skip_ws(s, r.i) > Len(s) THEN r ELSE DecodeError

\* dict.get(key, default): the last member of that name in the text
dict_get(d, key, default) ==
    LET at == {i \in 1..Len(d.items) : d.items[i][1] = key}
    IN  IF at = {} THEN default
        ELSE d.items[CHOOSE i \in at : \A j \in at : j <= i][2]

\* bool(v)
py_truthy(v) == IF v.kind = "null" THEN FALSE ELSE v.n # 0

\* (mutant) the flag is tested for truth
is_True_or_truthy(v) == py_truthy(v)

\* `v is True`
is_True(v) == v = PyTrue

\* lines 83-99
is_streaming_request(body) ==
    IF body = <<>> THEN FALSE
    ELSE LET d == decode(body)
         IN  IF ~d.ok THEN FALSE                    \* UnicodeDecodeError
             ELSE LET body_str == strip(d.s)
                  IN  IF ~startswith(body_str, <<"{">>) THEN FALSE
                      ELSE LET body_json == json_loads(body_str)
                           IN  IF ~body_json.ok THEN FALSE   \* JSONDecodeError
                               ELSE is_True(dict_get(body_json.v, "\"stream\"",
                                                     PyFalse))

\* lines 138-159: the StreamingResponse, or the buffered client.request
forward_path(streaming) == IF streaming THEN "stream" ELSE "request"

\* the bodies that requests carry: objects of up to MaxPairs members, JSON
\* that is no object, text that is no JSON, bytes that are no text; each
\* with and without whitespace around it
MemberNames == {"\"stream\"", "\"a\""}
MemberValues ==
    { <<"true">>, <<"false">>, <<"null">>, <<"1">>, <<"0">>,
      <<"\"true\"">>, <<"\"\"">>,
      <<"[", "true", "]">>,
      <<"{", "\"stream\"", ":", "true", "}">> }
Members == {<<k, ":">> \o v : k \in MemberNames, v \in MemberValues}

RECURSIVE MemberLists(_)
MemberLists(n) ==
    IF n = 1 THEN Members
    ELSE {m \o <<",">> \o l : m \in Members, l \in MemberLists(n - 1)}

Objects ==
    {<<"{", "}">>}
    \cup {<<"{">> \o l \o <<"}">> : l \in UNION {MemberLists(n) : n \in 1..MaxPairs}}

StreamTrue == <<"{", "\"stream\"", ":", "true", "}">>
OtherBodies ==
    { <<>>,                                            \* no body
      <<"true">>,                                      \* JSON, no object
      <<"[", "true", "]">>,
      <<"\"stream\"">>,
      <<BadByte>>,                                     \* no UTF-8
      StreamTrue \o <<BadByte>>,
      <<"{", "\"a\"", ":", BadByte, "}">>,
      <<"{", "\"stream\"", ":", "true">>,              \* no JSON
      <<"{", "\"stream\"", "true", "}">>,
      <<"{", "\"stream\"", ":", "true", ",", "}">>,
      <<"{", "true", "}">>,
      StreamTrue \o <<"}">>,
      <<"{", "\"stream\"", ":", "[", "true", "}">>,
      <<"{", FormFeed, "\"stream\"", ":", "true", "}">>,
      <<"{", Space, "\"stream\"", Space, ":", Space, "true", Space, "}">> }

Margins == {<<>>, <<Space>>, <<FormFeed>>}
Bodies == {pre \o b \o post : pre \in Margins, post \in Margins,
                              b \in Objects \cup OtherBodies}

\* no body has been classified
NoFwd == [body |-> <<>>, streaming |-> FALSE, path |-> "none", step |-> 0]

\* utils.parse_vllm_command has not been applied
NoRw == [args |-> <<>>, port |-> 0, out |-> <<>>, again |-> <<>>, passes |-> 0]

\* the gateway as constructed with one of the API keys `keys`
Constructed(keys) ==
    /\ is_running = FALSE
    /\ process = None
    /\ stdout_file = None
    /\ stderr_file = None
    /\ proc = [k \in Pids |-> "unborn"]
    /\ ready = {}
    /\ sigterm = {}
    /\ sigkill = {}
    /\ open_files = {}
    /\ attempts = 0
    /\ vllm_command \in BOOLEAN
    /\ idle_timeout = MaxIdleTimeout
    /\ idle_time = 0
    /\ req = [r \in Reqs |-> NoReq]
    /\ stop_op = [c \in StopCallers |-> NoStop]
    /\ mon_pc = "sleep"
    /\ cl_pc = "none"
    /\ ev = Event("init", "none")
    /\ api_key \in keys

\* cli.py: --api-key is optional and defaults to None
Init == Constructed({NoneStr}) /\ rw = NoRw /\ fwd = NoFwd

Serving == cl_pc = "none"

\* -------------------------------------------------------------------------
\* ProxyServer._handle_proxy_request
\* -------------------------------------------------------------------------
\* (mutant) the command is never found missing
command_missing_never(cmd) == FALSE

\* line 108: `not self.vllm_command`
command_missing(cmd) == ~cmd

\* lines 103-120 and start_vllm_server up to its sleep: no await in between
AdmitProxyRequest(r) ==
    /\ idle_time' = 0
    /\ LET up == is_server_running_ret(World)
           w1 == is_server_running(World)
       IN  IF up
           THEN /\ Commit(w1)
                /\ SetReq(r, [NoReq EXCEPT !.pc = "wait_ready"])
                /\ ev' = Event("request", "running")
           ELSE IF command_missing(vllm_command)
           THEN /\ Commit(w1)
                /\ SetReq(r, NoReq)
                /\ ev' = Event("request", "503_no_command")
           ELSE IF start_is_noop(w1)
           THEN /\ Commit(w1)
                /\ SetReq(r, [NoReq EXCEPT !.pc = "wait_ready",
                                        !.cold = TRUE,
                                        !.started = TRUE])
                /\ ev' = Event("request", "start_noop")
           ELSE /\ w1.attempts < MaxSpawns
                /\ \E popen_ok \in BOOLEAN :
                     /\ Commit(start_spawn(w1, popen_ok))
                     /\ IF popen_ok
                        THEN /\ SetReq(r, [NoReq EXCEPT !.pc = "settle",
                                        !.cold = TRUE,
                                        !.att = w1.attempts + 1])
                             /\ ev' = EventOf("request", "spawned",
                                              w1.attempts + 1)
                        ELSE /\ SetReq(r, NoReq)
                             /\ ev' = EventOf("request", "503_start_failed",
                                              w1.attempts + 1)
    /\ UNCHANGED <<ready, config, rw, fwd, stop_op, mon_pc, cl_pc>>

\* the route /v1/{path}: the dependency verified_api_token, then the handler
HandleProxyRequest(r) ==
    /\ Serving
    /\ req[r].pc = "none"
    /\ \A q \in Reqs : q < r => req[q].pc # "none"   \* slots are alike
    /\ \E verdict \in Verdicts[api_key] :
         IF verdict = "401"
         THEN /\ ev' = Event("request", "401")
              /\ UNCHANGED <<pmvars, osvars, config, rw, fwd, idle_time,
                             req, stop_op, mon_pc, cl_pc>>
         ELSE AdmitProxyRequest(r)

\* start_vllm_server lines 90-98, then server.py lines 116-120
SettleCheck(r) ==
    /\ req[r].pc = "settle"
    /\ Commit(start_settle(World))
    /\ IF start_settle_ret(World)
       THEN /\ SetReq(r, [NoReq EXCEPT !.pc = "wait_ready",
                                        !.cold = TRUE,
                                        !.started = TRUE])
            /\ ev' = EventOf("settle", "true", req[r].att)
       ELSE /\ SetReq(r, NoReq)
            /\ ev' = EventOf("settle", "false", req[r].att)
    /\ UNCHANGED <<ready, config, rw, fwd, idle_time,
                   stop_op, mon_pc, cl_pc>>

\* what answers on localhost:target_port
Listening == {k \in Pids : proc[k] = "alive"}

\* GET ping_path: 200 from a backend that is up, else an error status or a
\* connection failure
probe_status == IF \E k \in Listening : k \in ready THEN "200" ELSE "failed"

\* (mutant) the readiness loop returns on any probe outcome
wait_ready_returns_any(status) == TRUE

\* line 210: the readiness loop returns on this probe
wait_ready_returns(status) == status = "200"

\* _wait_for_vllm_ready: the probe that ends the loop (any other loops on)
ProbeReady(r) ==
    /\ req[r].pc = "wait_ready"
    /\ wait_ready_returns(probe_status)
    /\ SetReq(r, [req[r] EXCEPT !.pc = "forward",
                                !.probed = (probe_status = "200")])
    /\ ev' = Event("env", "none")
    /\ UNCHANGED <<pmvars, osvars, config, rw, fwd, idle_time,
                   stop_op, mon_pc, cl_pc>>

\* lines 126-180 and _stream_from_vllm: the request is sent and its
\* response, buffered or streamed, has been relayed to its end
Forward(r) ==
    /\ req[r].pc = "forward"
    /\ SetReq(r, NoReq)
    /\ ev' = Event("env", "none")
    /\ UNCHANGED <<pmvars, osvars, config, rw, fwd, idle_time,
                   stop_op, mon_pc, cl_pc>>

\* The task of a request is cancelled at the await it is suspended in: the
\* settle delay of start_vllm_server, the readiness loop, or the forwarding.
Cancel(r) ==
    /\ req[r].pc \in {"settle", "wait_ready", "forward"}
    /\ Commit(IF req[r].pc = "settle" THEN cancel_start(World) ELSE World)
    /\ SetReq(r, NoReq)
    /\ ev' = Event("cancel", req[r].pc)
    /\ UNCHANGED <<ready, config, rw, fwd, idle_time, stop_op, mon_pc, cl_pc>>

\* the /health route
Health ==
    /\ Serving
    /\ Commit(health_effect(World))
    /\ ev' = Event("health",
                   IF is_server_running_ret(World) THEN "true" ELSE "false")
    /\ UNCHANGED <<ready, config, rw, fwd, idle_time,
                   req, stop_op, mon_pc, cl_pc>>

\* -------------------------------------------------------------------------
\* ProcessManager.stop_vllm_server, for a caller c
\* -------------------------------------------------------------------------
\* the caller resumes after `await stop_vllm_server()`
Resume(c) ==
    /\ mon_pc' = IF c = "monitor" THEN "sleep" ELSE mon_pc
    /\ cl_pc' = IF c = "cleanup" THEN "done" ELSE cl_pc

\* lines 142-157, on a running server: SIGTERM, then wait
StopBegin(c, w) ==
    /\ Commit(stop_terminate(w))
    /\ stop_op' = [stop_op EXCEPT ![c] =
                     [pc |-> "grace", elapsed |-> 0, target |-> w.process]]

\* _wait_for_process returned (within the grace period or after the kill)
StopWaitDone(c) ==
    /\ stop_op[c].pc \in {"grace", "killed"}
    /\ ~wait_for_process_blocked(World)
    /\ Commit(stop_finish(World))
    /\ stop_op' = [stop_op EXCEPT ![c] = NoStop]
    /\ Resume(c)
    /\ ev' = EventBy("stop", "true", c)
    /\ UNCHANGED <<ready, config, rw, fwd, idle_time, req>>

\* asyncio.TimeoutError: lines 159-163
StopTimeout(c) ==
    /\ stop_op[c].pc = "grace"
    /\ stop_op[c].elapsed >= GraceTicks
    /\ wait_for_process_blocked(World)
    /\ Commit(stop_kill(World))
    /\ stop_op' = [stop_op EXCEPT ![c].pc = "killed"]
    /\ ev' = EventBy("kill", "sent", c)
    /\ UNCHANGED <<ready, config, rw, fwd, idle_time,
                   req, mon_pc, cl_pc>>

\* -------------------------------------------------------------------------
\* ProxyServer._idle_monitor: one wake-up
\* -------------------------------------------------------------------------
\* (mutant) the comparison reversed
idle_exceeded_reversed(t, limit) == t < limit

\* (mutant) stop as soon as the threshold is reached
idle_exceeded_or_reached(t, limit) == t >= limit

\* line 233
idle_exceeded(t, limit) == t > limit

MonitorWake ==
    /\ Serving \/ cl_pc = "stopping"
    /\ mon_pc = "sleep"
    /\ LET up == is_server_running_ret(World)
           w1 == is_server_running(World)
       IN  IF up /\ idle_exceeded(idle_time, idle_timeout)
           THEN IF stop_is_noop(w1)
                THEN /\ Commit(w1)
                     /\ UNCHANGED <<stop_op, mon_pc>>
                     /\ ev' = Event("monitor", "stop_noop")
                ELSE /\ StopBegin("monitor", w1)
                     /\ mon_pc' = "stopping"
                     /\ ev' = Event("monitor", "stop")
           ELSE /\ Commit(w1)
                /\ UNCHANGED <<stop_op, mon_pc>>
                /\ ev' = Event("monitor", "skip")
    /\ UNCHANGED <<ready, config, rw, fwd, idle_time, req, cl_pc>>

\* -------------------------------------------------------------------------
\* ProxyServer.cleanup / ProcessManager.cleanup, run once at shutdown after
\* the HTTP server has drained its requests (cli.py lines 244-254)
\* -------------------------------------------------------------------------
Cleanup ==
    /\ cl_pc = "none"
    /\ \A r \in Reqs : req[r].pc = "none"
    /\ IF ~is_running
       THEN /\ Commit(close_log_files(World))
            /\ cl_pc' = "done"
            /\ ev' = Event("cleanup", "done")
            /\ UNCHANGED stop_op
       ELSE IF stop_is_noop(World)
       THEN /\ Commit(close_log_files(World))
            /\ cl_pc' = "done"
            /\ ev' = Event("cleanup", "stop_noop")
            /\ UNCHANGED stop_op
       ELSE /\ StopBegin("cleanup", World)
            /\ cl_pc' = "stopping"
            /\ ev' = Event("cleanup", "stop")
    /\ UNCHANGED <<ready, config, rw, fwd, idle_time, req, mon_pc>>

\* -------------------------------------------------------------------------
\* Environment: the backend process and the clock
\* -------------------------------------------------------------------------
\* the process exits: a crash, or its reaction to SIGTERM or SIGKILL
ProcExit(k) ==
    /\ proc[k] = "alive"
    /\ proc' = [proc EXCEPT ![k] = "exited"]
    /\ ready' = ready \ {k}
    /\ sigterm' = sigterm \ {k}
    /\ sigkill' = sigkill \ {k}
    /\ ev' = Event("env", "none")
    /\ UNCHANGED <<pmvars, open_files, attempts,
                   config, rw, fwd, idle_time,
                   req, stop_op, mon_pc, cl_pc>>

\* A log pair that start_vllm_server opened and whose file objects have
\* been overwritten in self.stdout_file / self.stderr_file is closed when
\* the interpreter finalizes the objects: at once under reference counting,
\* at some later collection otherwise.
Finalize(k) ==
    /\ k \in open_files
    /\ k \notin {stdout_file, stderr_file}
    /\ open_files' = open_files \ {k}
    /\ ev' = Event("env", "none")
    /\ UNCHANGED <<pmvars, proc, ready, sigterm, sigkill, attempts,
                   config, rw, fwd, idle_time, req, stop_op, mon_pc, cl_pc>>

\* the backend has loaded its model and answers the ping path
BecomeReady(k) ==
    /\ proc[k] = "alive"
    /\ k \notin ready
    /\ ready' = ready \cup {k}
    /\ ev' = Event("env", "none")
    /\ UNCHANGED <<pmvars, proc, sigterm, sigkill, open_files, attempts,
                   config, rw, fwd, idle_time,
                   req, stop_op, mon_pc, cl_pc>>

\* one tick (ten seconds) passes
Tick ==
    /\ cl_pc # "done"
    /\ idle_time' = Min(idle_time + 1, idle_timeout + 1)
    /\ stop_op' = [c \in StopCallers |->
                     IF stop_op[c].pc = "grace"
                     THEN [stop_op[c] EXCEPT !.elapsed = Min(@ + 1, GraceTicks)]
                     ELSE stop_op[c]]
    /\ ev' = Event("env", "none")
    /\ UNCHANGED <<pmvars, osvars, config, rw, fwd,
                   req, mon_pc, cl_pc>>

Next ==
    \/ \E r \in Reqs : HandleProxyRequest(r)
    \/ \E r \in Reqs : SettleCheck(r)
    \/ \E r \in Reqs : ProbeReady(r)
    \/ \E r \in Reqs : Forward(r)
    \/ \E r \in Reqs : Cancel(r)
    \/ Health
    \/ MonitorWake
    \/ \E c \in StopCallers : StopWaitDone(c)
    \/ \E c \in StopCallers : StopTimeout(c)
    \/ Cleanup
    \/ \E k \in Pids : ProcExit(k)
    \/ \E k \in Pids : BecomeReady(k)
    \/ \E k \in Pids : Finalize(k)
    \/ Tick

Spec == Init /\ [][Next]_vars

\* The idle monitor is a task of the event loop: its sleep ends.
FairSpec == Spec /\ WF_vars(MonitorWake)

\* -------------------------------------------------------------------------
\* The ProcessManager on its own: its public methods called in any order
\* by concurrent tasks of the event loop.
\* -------------------------------------------------------------------------
\* start_vllm_server up to its first await (or its return)
ApiStart(r) ==
    /\ req[r].pc = "none"
    /\ \A q \in Reqs : q < r => req[q].pc # "none"
    /\ IF start_is_noop(World)
       THEN /\ Commit(World)
            /\ req' = req
            /\ ev' = Event("start", "true")
       ELSE /\ attempts < MaxSpawns
            /\ \E popen_ok \in BOOLEAN :
                 /\ Commit(start_spawn(World, popen_ok))
                 /\ IF popen_ok
                    THEN /\ SetReq(r, [NoReq EXCEPT !.pc = "api_settle",
                                                    !.att = attempts + 1])
                         /\ ev' = EventOf("start", "spawned", attempts + 1)
                    ELSE /\ req' = req
                         /\ ev' = EventOf("start", "false", attempts + 1)
    /\ UNCHANGED <<ready, config, rw, fwd, idle_time,
                   stop_op, mon_pc, cl_pc>>

\* start_vllm_server lines 90-98
ApiSettle(r) ==
    /\ req[r].pc = "api_settle"
    /\ Commit(start_settle(World))
    /\ SetReq(r, NoReq)
    /\ ev' = EventOf("settle",
                     IF start_settle_ret(World) THEN "true" ELSE "false",
                     req[r].att)
    /\ UNCHANGED <<ready, config, rw, fwd, idle_time,
                   stop_op, mon_pc, cl_pc>>

\* stop_vllm_server up to its first await (or its return)
ApiStop ==
    /\ stop_op["api"].pc = "none"
    /\ IF stop_is_noop(World)
       THEN /\ Commit(World)
            /\ UNCHANGED stop_op
            /\ ev' = Event("stop", "noop")
       ELSE /\ StopBegin("api", World)
            /\ ev' = Event("stop", "begun")
    /\ UNCHANGED <<ready, config, rw, fwd, idle_time,
                   req, mon_pc, cl_pc>>

\* ProcessManager.cleanup up to its first await (or its return)
ApiCleanup ==
    /\ stop_op["api_cleanup"].pc = "none"
    /\ IF ~is_running
       THEN /\ Commit(close_log_files(World))
            /\ UNCHANGED stop_op
            /\ ev' = Event("cleanup", "done")
       ELSE IF stop_is_noop(World)
       THEN /\ Commit(close_log_files(World))
            /\ UNCHANGED stop_op
            /\ ev' = Event("cleanup", "stop_noop")
       ELSE /\ StopBegin("api_cleanup", World)
            /\ ev' = Event("cleanup", "stop")
    /\ UNCHANGED <<ready, config, rw, fwd, idle_time, req, mon_pc, cl_pc>>

\* is_server_running
ApiIsRunning ==
    /\ Commit(is_server_running(World))
    /\ ev' = Event("is_running",
                   IF is_server_running_ret(World) THEN "true" ELSE "false")
    /\ UNCHANGED <<ready, config, rw, fwd, idle_time,
                   req, stop_op, mon_pc, cl_pc>>

SupervisorNext ==
    \/ \E r \in Reqs : ApiStart(r)
    \/ \E r \in Reqs : ApiSettle(r)
    \/ ApiStop
    \/ ApiIsRunning
    \/ ApiCleanup
    \/ \E c \in {"api", "api_cleanup"} : StopWaitDone(c)
    \/ \E c \in {"api", "api_cleanup"} : StopTimeout(c)
    \/ \E k \in Pids : ProcExit(k)
    \/ \E k \in Pids : Finalize(k)
    \/ Tick

SupervisorSpec == Init /\ [][SupervisorNext]_vars

\* The gateway constructed with an API key.
AuthInit == Constructed({Str(Key)}) /\ rw = NoRw /\ fwd = NoFwd

AuthSpec == AuthInit /\ [][Next]_vars

\* -------------------------------------------------------------------------
\* utils.parse_vllm_command, applied to an argument list and then to its own
\* output.  An argument is a string, the sequence of its characters.
\* -------------------------------------------------------------------------
HostFlag == <<"-", "-", "h", "o", "s", "t">>
PortFlag == <<"-", "-", "p", "o", "r", "t">>
HostEq == HostFlag \o <<"=">>
PortEq == PortFlag \o <<"=">>
Wildcard == <<"0", ".", "0", ".", "0", ".", "0">>

\* str(target_port)
DigitChar == <<"0", "1", "2", "3", "4", "5", "6", "7", "8", "9">>

RECURSIVE str(_)
str(n) ==
    IF n < 10 THEN <<DigitChar[n + 1]>>
    ELSE str(n \div 10) \o <<DigitChar[(n % 10) + 1]>>

\* the arguments and target ports the rewriter is applied to
ArgWords ==
    { HostFlag, PortFlag,
      HostEq \o <<"h">>,            \* --host=h
      PortEq \o <<"9">>,            \* --port=9
      <<"m">>,                      \* any other word
      <<"9">> }                     \* a word that reads like a port
Ports == {9, 80}

RECURSIVE ArgLists(_)
ArgLists(n) ==
    IF n = 0 THEN {<<>>}
    ELSE ArgLists(n - 1)
         \cup {Append(a, x) : a \in {b \in ArgLists(n - 1) : Len(b) = n - 1},
                              x \in ArgWords}

\* (mutant) --host and --port are appended whether or not they were seen
append_missing_always(out, host_set, port_set, target_port) ==
    out \o <<HostFlag, Wildcard>> \o <<PortFlag, str(target_port)>>

\* lines 78-82
append_missing(out, host_set, port_set, target_port) ==
    LET with_host == IF ~host_set THEN out \o <<HostFlag, Wildcard>> ELSE out
    IN  IF ~port_set THEN with_host \o <<PortFlag, str(target_port)>>
        ELSE with_host

\* lines 51-76, with i counted from 1
RECURSIVE parse_loop(_, _, _, _, _, _)
parse_loop(command_args, target_port, i, out, host_set, port_set) ==
    IF i > Len(command_args)
    THEN append_missing(out, host_set, port_set, target_port)
    ELSE LET arg == command_args[i]
         IN  IF arg = HostFlag
             THEN parse_loop(command_args, target_port, i + 2,
                             out \o <<HostFlag, Wildcard>>, TRUE, port_set)
             ELSE IF arg = PortFlag
             THEN parse_loop(command_args, target_port, i + 2,
                             out \o <<PortFlag, str(target_port)>>,
                             host_set, TRUE)
             ELSE IF startswith(arg, HostEq)
             THEN parse_loop(command_args, target_port, i + 1,
                             Append(out, HostEq \o Wildcard), TRUE, port_set)
             ELSE IF startswith(arg, PortEq)
             THEN parse_loop(command_args, target_port, i + 1,
                             Append(out, PortEq \o str(target_port)),
                             host_set, TRUE)
             ELSE parse_loop(command_args, target_port, i + 1,
                             Append(out, arg), host_set, port_set)

parse_vllm_command(command_args, target_port) ==
    parse_loop(command_args, target_port, 1, <<>>, FALSE, FALSE)

RewriteInit ==
    /\ Constructed({NoneStr})
    /\ \E a \in ArgLists(MaxArgs), p \in Ports :
         rw = [NoRw EXCEPT !.args = a, !.port = p]
    /\ fwd = NoFwd

\* the rewriter is applied to the argument list
Rewrite ==
    /\ rw.passes = 0
    /\ rw' = [rw EXCEPT !.out = parse_vllm_command(rw.args, rw.port),
                        !.passes = 1]
    /\ UNCHANGED <<pmvars, osvars, config, idle_time,
                   req, stop_op, mon_pc, cl_pc, ev, fwd>>

\* the rewriter is applied to its own output, with the same target port
RewriteAgain ==
    /\ rw.passes = 1
    /\ rw' = [rw EXCEPT !.again = parse_vllm_command(rw.out, rw.port),
                        !.passes = 2]
    /\ UNCHANGED <<pmvars, osvars, config, idle_time,
                   req, stop_op, mon_pc, cl_pc, ev, fwd>>

RewriteNext == Rewrite \/ RewriteAgain

RewriteSpec == RewriteInit /\ [][RewriteNext]_vars

\* -------------------------------------------------------------------------
\* ProxyServer._is_streaming_request and the branch of the handler it
\* decides, applied to a request body.
\* -------------------------------------------------------------------------
StreamInit ==
    /\ Constructed({NoneStr})
    /\ rw = NoRw
    /\ \E b \in Bodies : fwd = [NoFwd EXCEPT !.body = b]

\* line 138: the body is classified
Classify ==
    /\ fwd.step = 0
    /\ fwd' = [fwd EXCEPT !.streaming = is_streaming_request(fwd.body),
                          !.step = 1]
    /\ UNCHANGED <<pmvars, osvars, config, idle_time,
                   req, stop_op, mon_pc, cl_pc, ev, rw>>

\* lines 138-159: the path the handler takes
Route ==
    /\ fwd.step = 1
    /\ fwd' = [fwd EXCEPT !.path = forward_path(fwd.streaming),
                          !.step = 2]
    /\ UNCHANGED <<pmvars, osvars, config, idle_time,
                   req, stop_op, mon_pc, cl_pc, ev, rw>>

StreamNext == Classify \/ Route

StreamSpec == StreamInit /\ [][StreamNext]_vars

\* =========================================================================
\* Properties
\* =========================================================================
\* operations of the supervisor that are in progress
StartsInProgress == {r \in Reqs : req[r].pc \in {"settle", "api_settle"}}
StopsInProgress == {c \in StopCallers : stop_op[c].pc # "none"}

\* a step that spawned a backend process
Spawned == attempts' = attempts + 1 /\ proc'[attempts'] = "alive"

C2_Serialized ==
    Cardinality(StartsInProgress) + Cardinality(StopsInProgress) <= 1

\* C3: start() invoked while the supervisor is already Starting or Running
\* (is_running is set) returns success and changes neither the process
\* handle, nor the log files, nor the lifecycle flag, and spawns nothing.
C3_StartNoop ==
    [][ev'.op = "start" /\ is_running
         => /\ ev'.ret = "true"
            /\ UNCHANGED <<is_running, process, stdout_file, stderr_file>>
            /\ UNCHANGED <<proc, open_files, attempts>>]_vars

\* start() has just returned success while a start was settling
C3_Witness ==
    /\ ev = Event("start", "true")
    /\ is_running
    /\ StartsInProgress # {}
    /\ attempts = 1

\* C4: a request that found the backend down and a command configured is
\* forwarded only after start() succeeded and then a readiness probe
\* returned 200; no request at all is forwarded before a probe made for it
\* returned 200.
C4_ReadyBeforeForward ==
    \A r \in Reqs :
        /\ req[r].pc = "forward" => req[r].probed
        /\ req[r].pc = "forward" /\ req[r].cold => req[r].started
        /\ req[r].probed /\ req[r].cold => req[r].started
        /\ req[r].pc = "settle" => ~req[r].started /\ ~req[r].probed

\* a request that started the backend is being forwarded
C4_Witness ==
    \E r \in Reqs :
        req[r].pc = "forward" /\ req[r].cold /\ req[r].started /\ req[r].probed

\* C5: a running backend (is_running set, process alive) whose last
\* request is more than idle_timeout old is eventually stopped by the idle
\* monitor, unless a request arrives, the process exits or the gateway shuts
\* down first.
C5_IdleStopEventually ==
    (/\ Serving
     /\ is_server_running_ret(World)
     /\ idle_time > idle_timeout)
    ~> (\/ mon_pc = "stopping"
        \/ ~is_server_running_ret(World)
        \/ idle_time <= idle_timeout
        \/ ~Serving)

\* the monitor has just invoked stop() on an idle backend
C5_Witness ==
    /\ ev = Event("monitor", "stop")
    /\ mon_pc = "stopping"
    /\ stop_op["monitor"].pc = "grace"
    /\ idle_time > idle_timeout

\* C6: the idle monitor invokes stop() only at a check that finds the backend
\* running and the time since the last recorded request strictly above
\* idle_timeout.
C6_IdleStopOnlyWhenIdle ==
    [][ev'.op = "monitor" /\ ev'.ret \in {"stop", "stop_noop"}
         => /\ is_server_running_ret(World)
            /\ idle_time > idle_timeout]_vars

\* the monitor checked a running backend with recent activity and did not stop
C6_Witness ==
    /\ ev = Event("monitor", "skip")
    /\ is_server_running_ret(World)
    /\ idle_time <= idle_timeout
    /\ stop_op["monitor"].pc = "none"

\* The lifecycle state of the supervisor.  The code keeps one flag: Stopped
\* and Failed are both is_running = FALSE; Starting, Running and Stopping
\* are is_running = TRUE, told apart by the operation in progress.
LifeState ==
    IF ~is_running THEN "Stopped"
    ELSE IF StopsInProgress # {} THEN "Stopping"
    ELSE IF StartsInProgress # {} THEN "Starting"
    ELSE "Running"

\* the transitions of the state machine with the operation that makes them
\* (Failed reads Stopped)
LifeTransitions ==
    { <<"Stopped", "start", "Starting">>,
      <<"Starting", "settle", "Running">>,
      <<"Starting", "settle", "Stopped">>,
      <<"Running", "stop", "Stopping">>,
      <<"Stopping", "stop", "Stopped">>,
      <<"Running", "is_running", "Stopped">> }

\* C7: the lifecycle state starts at Stopped and changes only along the
\* transitions of the state machine, whatever the order and interleaving of
\* start(), stop(), isRunning() and process exits.
C7_StateMachine ==
    /\ LifeState = "Stopped"
    /\ [][LifeState' # LifeState
           => <<LifeState, ev'.op, LifeState'>> \in LifeTransitions]_vars

\* the process of the handle is alive
ProcessAlive == process # None /\ proc[process] = "alive"

\* the process of the handle has exited
ProcessExited == process # None /\ proc[process] = "exited"

\* what C8 says besides the state in which isRunning() is true: a process
\* that exited makes the call return false and clear is_running, and a
\* request that then arrives invokes start() again
C8_Correction ==
    /\ [][ev'.op = "health" /\ is_running /\ ProcessExited
           => ev'.ret = "false" /\ ~is_running']_vars
    /\ [][ev'.op = "request" /\ ~is_running /\ vllm_command
           => attempts' = attempts + 1]_vars

C9_StopSequence ==
    /\ [][\A c \in StopCallers :
             stop_op[c].pc = "grace" /\ stop_op'[c].pc = "killed"
             => /\ stop_op[c].elapsed >= GraceTicks
                /\ proc[stop_op[c].target] = "alive"
                /\ sigkill' \subseteq sigterm]_vars
    /\ [][\A c \in StopCallers :
             stop_op[c].pc # "none" /\ stop_op'[c].pc = "none"
             => /\ proc'[stop_op[c].target] = "exited"
                /\ stdout_file' = None /\ stderr_file' = None
                /\ process' = None
                /\ ~is_running']_vars

\* stop() has returned success
StopReturned ==
    \/ ev.op = "stop" /\ ev.ret = "true"
    \/ ev.op \in {"monitor", "cleanup"} /\ ev.ret = "stop_noop"

\* C10: after a stop() that returned success isRunning() is false, so the
\* health route reports worker_running false, and it turns true again only
\* in a step in which start() spawns a process.
C10_StoppedStaysStopped ==
    /\ [](StopReturned => ~is_server_running_ret(World))
    /\ [][~is_server_running_ret(World) /\ is_server_running_ret(World)'
           => Spawned]_vars
    /\ [][ev'.op = "health" /\ ~is_server_running_ret(World)
           => ev'.ret = "false"]_vars

\* the idle monitor's stop has returned and the backend is down
C10_Witness ==
    /\ ev = EventBy("stop", "true", "monitor")
    /\ mon_pc = "sleep"
    /\ ~is_running /\ process = None
    /\ \A k \in Pids : proc[k] # "alive"

\* requests at one of the positions pcs
At(pcs) == {r \in Reqs : req[r].pc \in pcs}

\* start() has just reported failure: Popen raised, or the settle check
\* found the process gone
StartFailed ==
    \/ ev.op \in {"request", "start"} /\ ev.ret \in {"503_start_failed", "false"}
    \/ ev.op = "settle" /\ ev.ret = "false"

C12_FailedStartRetryable ==
    /\ [][StartFailed' /\ ev' # ev => ~is_running']_vars
    /\ [][StartFailed /\ ev'.op = "request" /\ ev'.ret # "401" /\ vllm_command
           => /\ ev'.ret \in {"spawned", "503_start_failed"}
              /\ attempts' = attempts + 1]_vars
    /\ [][ev'.op = "request" /\ ev'.ret # "401" /\ vllm_command
            /\ ~ProcessAlive
           => attempts' = attempts + 1]_vars

\* the first attempt failed in Popen and the next request spawned the second
C12_Witness ==
    /\ ev = EventOf("request", "spawned", 2)
    /\ proc[1] = "unborn"
    /\ proc[2] = "alive"
    /\ is_running /\ process = 2

\* cleanup() or stop() has just returned success
CleanupReturned ==
    \/ ev.op = "cleanup" /\ ev.ret \in {"done", "stop_noop"}
    \/ ev = EventBy("stop", "true", "api_cleanup")
StopSucceeded == ev.op = "stop" /\ ev.ret \in {"true", "noop"}

\* C13: cleanup() on a running supervisor performs the stop sequence; when
\* a cleanup() returns both log-file handles are closed; a cleanup() that
\* directly follows a cleanup() or a successful stop() changes nothing in
\* the supervisor, closes no file and sends no signal.
C13_CleanupIdempotent ==
    /\ [][ev'.op = "cleanup" /\ is_running /\ process # None
           => /\ ev'.ret = "stop"
              /\ stop_op'["api_cleanup"].pc = "grace"
              /\ ProcessAlive => process \in sigterm']_vars
    /\ [][CleanupReturned' /\ ev' # ev
           => stdout_file' = None /\ stderr_file' = None]_vars
    /\ [][ev'.op = "cleanup" /\ (CleanupReturned \/ StopSucceeded)
           => UNCHANGED <<is_running, process, stdout_file, stderr_file,
                          proc, sigterm, sigkill, open_files, stop_op>>]_vars

\* C14: stop() invoked while the supervisor is Stopped (is_running false)
\* returns success at once: no signal is sent, and the flag, the process
\* handle and the log-file handles stay as they were.
C14_StopWhileStopped ==
    [][ev'.op = "stop" /\ ev'.ret \in {"noop", "begun"} /\ ~is_running
         => /\ ev'.ret = "noop"
            /\ UNCHANGED <<is_running, process, stdout_file, stderr_file>>
            /\ UNCHANGED <<proc, sigterm, sigkill, open_files, stop_op>>]_vars

\* stop() has returned at once on a supervisor whose process crashed and
\* whose flag isRunning() had cleared; the handles are still in place
C14_Witness ==
    /\ ev = Event("stop", "noop")
    /\ ~is_running
    /\ ProcessExited
    /\ stdout_file # None /\ stdout_file \in open_files

\* what C15 calls authorized
KeyConfigured(key) == key.some /\ key.s # <<>>
BearerOf(key) == Str(BearerPrefix \o key.s)

\* C15: with an API key configured a request is authorized exactly if its
\* Authorization header is "Bearer " followed by the key, and with no key
\* configured every request is; a request answered 401 changes nothing in
\* the gateway (no clock update, no start, no probe, no forward), and a
\* request that is not answered 401 is handled.
C15_Auth ==
    /\ \A key \in Keys, h \in Headers :
         verified_api_token(key, h) = "ok"
           <=> (~KeyConfigured(key) \/ h = BearerOf(key))
    /\ [][ev'.op = "request" /\ ev'.ret = "401"
           => /\ KeyConfigured(api_key)
              /\ "401" \in Verdicts[api_key]
              /\ UNCHANGED <<pmvars, osvars, idle_time, req,
                             stop_op, mon_pc, cl_pc>>]_vars
    /\ [][ev'.op = "request" /\ ev'.ret # "401"
           => "ok" \in Verdicts[api_key] /\ idle_time' = 0]_vars

\* a request was answered 401 while the backend was down, and nothing started
C15_Witness ==
    /\ ev = Event("request", "401")
    /\ KeyConfigured(api_key)
    /\ vllm_command
    /\ ~is_running /\ attempts = 0
    /\ At({"settle", "wait_ready", "forward"}) = {}

\* C16: a request that finds the backend down while no command is
\* configured is answered 503 in the same step: start() is not invoked, the
\* request does not enter the readiness wait, and the supervisor and the
\* processes are as before.
C16_NoCommand ==
    [][ev'.op = "request" /\ ev'.ret # "401"
        /\ ~vllm_command /\ ~is_server_running_ret(World)
         => /\ ev'.ret = "503_no_command"
            /\ req' = req
            /\ UNCHANGED <<pmvars, osvars, stop_op>>]_vars

\* a request has just been answered 503 for want of a command
C16_Witness ==
    /\ ev = Event("request", "503_no_command")
    /\ ~vllm_command
    /\ attempts = 0 /\ ~is_running
    /\ idle_time = 0

\* C17: in every state the health route spawns nothing and signals nothing,
\* and begins neither a start nor a stop.
C17_HealthNeverStarts ==
    [][ev'.op = "health"
         => /\ attempts' = attempts
            /\ UNCHANGED <<process, proc, sigterm, sigkill, open_files>>
            /\ UNCHANGED <<req, stop_op>>]_vars

\* the health route has answered for a backend that is down and could be
\* started
C17_Witness ==
    /\ ev = Event("health", "false")
    /\ vllm_command
    /\ ~is_running /\ attempts = 0

\* the supervisor knows every backend process that is alive
TracksLiveProcess == \A k \in Listening : is_running /\ process = k

\* C18: cancelling one request at its settle delay, its readiness wait or
\* its forwarding removes that request and nothing else: no signal is sent,
\* no process exits, the supervisor's fields and the other requests stay as
\* they were with all that their completion depends on, and a live backend
\* remains known to the supervisor.
C18_CancelIsLocal ==
    /\ [][ev'.op = "cancel"
           => /\ UNCHANGED <<pmvars, osvars, stop_op, mon_pc, cl_pc, idle_time>>
              /\ \E r \in Reqs :
                   /\ req[r].pc = ev'.ret
                   /\ req' = SortReqs([req EXCEPT ![r] = NoReq])]_vars
    /\ []TracksLiveProcess

\* a request was cancelled in the settle delay of the start it made, while
\* another request waits for the backend it spawned
C18_Witness ==
    /\ ev = Event("cancel", "settle")
    /\ is_running /\ ProcessAlive
    /\ At({"settle"}) = {}
    /\ At({"wait_ready"}) # {}

\* the host and port flags of an argument list
HostFlags(a) ==
    {i \in 1..Len(a) : a[i] = HostFlag \/ startswith(a[i], HostEq)}
PortFlags(a) ==
    {i \in 1..Len(a) : a[i] = PortFlag \/ startswith(a[i], PortEq)}

\* the flag at position i is given the value v, in split or in = form
BoundTo(a, i, flag, v) ==
    \/ a[i] = flag /\ i < Len(a) /\ a[i + 1] = v
    \/ a[i] = flag \o <<"=">> \o v

\* C19: the rewriter's output has exactly one host flag, bound to 0.0.0.0,
\* and exactly one port flag, bound to the target port.
C19_OneHostOnePort ==
    rw.passes >= 1
      => /\ Cardinality(HostFlags(rw.out)) = 1
         /\ \A i \in HostFlags(rw.out) : BoundTo(rw.out, i, HostFlag, Wildcard)
         /\ Cardinality(PortFlags(rw.out)) = 1
         /\ \A i \in PortFlags(rw.out) :
              BoundTo(rw.out, i, PortFlag, str(rw.port))

\* C20: applying the rewriter to its own output with the same target port
\* gives that output again.
C20_Idempotent == rw.passes = 2 => rw.again = rw.out

\* both passes were made on a list with a port flag in = form and a bare
\* --host at its end
C20_Witness ==
    /\ rw.passes = 2
    /\ rw.args = <<PortEq \o <<"9">>, <<"m">>, HostFlag>>
    /\ rw.port = 80
    /\ rw.out = <<PortEq \o <<"8", "0">>, <<"m">>, HostFlag, Wildcard>>

\* the value of a body whose stripped text is JSON, and of a body that is
\* JSON as it stands
StrippedJson(body) ==
    LET d == decode(body)
    IN  IF d.ok THEN json_loads(strip(d.s)) ELSE DecodeError
JsonOf(body) ==
    LET d == decode(body)
    IN  IF d.ok THEN json_loads(d.s) ELSE DecodeError

\* the streaming flag that a parsed body carries; none reads false
FlagOf(j) ==
    IF j.ok /\ j.v.kind = "dict" THEN dict_get(j.v, "\"stream\"", PyFalse)
    ELSE PyFalse

\* only the requests classified as streaming take the streaming path
StreamingPathOnlyIfStreaming ==
    fwd.step = 2 => (fwd.path = "stream" <=> fwd.streaming)

\* C21 as stated: a body is classified as streaming exactly when it decodes
\* as UTF-8 JSON and carries a truthy 'stream' flag, and only the requests
\* so classified take the streaming path.
C21_StreamingIffTruthy ==
    /\ fwd.step >= 1
         => (fwd.streaming <=> py_truthy(FlagOf(JsonOf(fwd.body))))
    /\ StreamingPathOnlyIfStreaming

\* C21 amended: a body is classified as streaming exactly when it decodes as
\* UTF-8, its text stripped of the whitespace around it is a JSON object,
\* and the object's 'stream' member (the last of that name) is the literal
\* true; an empty body, bytes that are not UTF-8, text that is not JSON and
\* an object whose flag is false or missing are non-streaming, and only the
\* requests classified as streaming take the streaming path.
C21_StreamingIffTrue ==
    /\ fwd.step >= 1
         => /\ fwd.streaming <=> FlagOf(StrippedJson(fwd.body)) = PyTrue
            /\ fwd.body = <<>> => ~fwd.streaming
            /\ ~decode(fwd.body).ok => ~fwd.streaming
            /\ ~StrippedJson(fwd.body).ok => ~fwd.streaming
            /\ FlagOf(StrippedJson(fwd.body)) = PyFalse => ~fwd.streaming
    /\ StreamingPathOnlyIfStreaming

\* a body with whitespace before it and the flag given twice, the second
\* time true, was classified as streaming and took the streaming path
C21_Witness ==
    /\ fwd.step = 2
    /\ fwd.body = <<Space, "{", "\"stream\"", ":", "false", ",",
                    "\"stream\"", ":", "true", "}">>
    /\ fwd.streaming
    /\ fwd.path = "stream"

\* the stop() of caller c is in progress and the handle holds a process
\* that was spawned after that stop() began
SpawnedDuringStop(c) ==
    /\ stop_op[c].pc # "none"
    /\ process # None
    /\ process > stop_op[c].target

\* C22: a stop() in progress leaves alone a process that was spawned after
\* it began: it does not signal or kill that process, does not clear its
\* handle, does not close its log files, and does not clear is_running
\* while that process is alive.
C22_StopSparesLaterProcess ==
    [][\A c \in StopCallers :
         SpawnedDuringStop(c) /\ ev'.op \in {"kill", "stop"} /\ ev'.by = c
         => /\ sigterm' = sigterm /\ sigkill' = sigkill
            /\ process' = process
            /\ stdout_file' = stdout_file /\ stderr_file' = stderr_file
            /\ open_files' = open_files
            /\ proc[process] = "alive" => is_running']_vars

\* a request is in the readiness wait while the supervisor is Stopped (or
\* Failed) and no start is in progress
OrphanedWait ==
    /\ At({"wait_ready"}) # {}
    /\ ~is_running
    /\ StartsInProgress = {}

\* C23: a request in the readiness wait whose backend was stopped or has
\* exited does not stay there with the supervisor Stopped and no start in
\* progress: start() is invoked again or the request leaves the wait.
C23_NoOrphanedWait == OrphanedWait ~> ~OrphanedWait

\* requests in flight behind the start decision: in the readiness wait, or
\* sent to the backend with the response (buffered or streamed) not yet
\* relayed to its end
InFlight == At({"wait_ready", "forward"})

\* C24: the idle monitor does not invoke stop() while a proxied request is
\* in flight, however long ago that request arrived.
C24_NoIdleStopInFlight ==
    [][ev'.op = "monitor" /\ ev'.ret \in {"stop", "stop_noop"}
         => InFlight = {}]_vars

\* the supervisor is Stopped (or Failed) and none of its operations is in
\* progress
Quiescent == ~is_running /\ StartsInProgress = {} /\ StopsInProgress = {}

\* C25: when start() opens a new pair of log files every pair opened by an
\* earlier attempt has been closed, and while the supervisor is Stopped with
\* no operation in progress no log file is open, also after a crash that
\* isRunning() rather than stop() has noticed.
C25_NoLogFileLeak ==
    /\ [][attempts' = attempts + 1 => open_files = {}]_vars
    /\ [](Quiescent => open_files = {})

TypeOK ==
    /\ is_running \in BOOLEAN
    /\ process \in {None} \cup Pids
    /\ attempts \in 0..MaxSpawns
    /\ idle_time \in 0..(idle_timeout + 1)

====
